---------------------------- MODULE Spec2Model ----------------------------
(***************************************************************************)
(* Model of the django-localflavor validators for the Netherlands          *)
(* (localflavor/nl/validators.py) and of the Maltese postal code form      *)
(* field (localflavor/mt/forms.py).                                        *)
(*                                                                         *)
(* A Python string is a sequence of one-character strings.  A validation   *)
(* outcome is a record [status, message]: status "accepted" (the call      *)
(* returns), "rejected" (the call raises ValidationError with that         *)
(* message) or "error" (the call raises another exception, named in        *)
(* message).                                                               *)
(***************************************************************************)
EXTENDS Integers, Sequences, FiniteSets, TLC

VARIABLES self, frame

vars == <<self, frame>>

-----------------------------------------------------------------------------
(* Characters and Python string primitives *)

Digits10 == <<"0", "1", "2", "3", "4", "5", "6", "7", "8", "9">>

\* \d and [0-9]
DigitChars == {Digits10[i] : i \in 1..10}

\* [1-9]
NonZeroDigitChars == DigitChars \ {"0"}

\* [A-Z]
UpperChars == {"A", "B", "C", "D", "E", "F", "G", "H", "I", "J", "K", "L", "M",
               "N", "O", "P", "Q", "R", "S", "T", "U", "V", "W", "X", "Y", "Z"}

\* \s, and the characters str.strip() removes
SpaceChars == {" ", "\t", "\n", "\r", "\f"}

Min(a, b) == IF a < b THEN a ELSE b

\* The value of each digit character
DigitValue == [ch \in DigitChars |-> (CHOOSE i \in 1..10 : Digits10[i] = ch) - 1]

DigitVal(ch) == DigitValue[ch]

\* value[:n]
Prefix(s, n) == SubSeq(s, 1, Min(n, Len(s)))

\* value[n:] with n a 0-based index
DropFirst(s, n) == SubSeq(s, n + 1, Len(s))

\* str.strip()
RECURSIVE LStrip(_)
LStrip(s) == IF s # <<>> /\ Head(s) \in SpaceChars THEN LStrip(Tail(s)) ELSE s

RECURSIVE RStrip(_)
RStrip(s) ==
    IF s # <<>> /\ s[Len(s)] \in SpaceChars THEN RStrip(SubSeq(s, 1, Len(s) - 1)) ELSE s

Strip(s) == RStrip(LStrip(s))

ValueError == -1

RECURSIVE DigitsToNat(_)
DigitsToNat(s) ==
    IF s = <<>> THEN 0 ELSE 10 * DigitsToNat(SubSeq(s, 1, Len(s) - 1)) + DigitVal(s[Len(s)])

\* int(s): surrounding whitespace is ignored, then every character must be a
\* digit; anything else raises ValueError
PyInt(s) ==
    LET t == Strip(s)
    IN  IF t # <<>> /\ \A i \in 1..Len(t) : t[i] \in DigitChars
        THEN DigitsToNat(t)
        ELSE ValueError

\* int(ch) for a single character: a whitespace character strips to the empty
\* string, so only a digit has a value
PyIntChar(ch) == IF ch \in DigitChars THEN DigitVal(ch) ELSE ValueError

-----------------------------------------------------------------------------
(* Regular expressions.  A pattern ^ item1 item2 ... $ is the sequence of    *)
(* its items [cls, min, max]: between min and max characters of class cls;  *)
(* max = Unbounded for + .  $ matches at the end of the string and just     *)
(* before a newline that ends the string.                                   *)

Unbounded == -1

Item(cls, min, max) == [cls |-> cls, min |-> min, max |-> max]

AtDollar(s, j) == j = Len(s) + 1 \/ (j = Len(s) /\ s[j] = "\n")

RECURSIVE MatchFrom(_, _, _, _)
MatchFrom(p, k, s, j) ==
    IF k > Len(p)
    THEN AtDollar(s, j)
    ELSE LET left == Len(s) - j + 1
             most == IF p[k].max = Unbounded THEN left ELSE Min(p[k].max, left)
         IN  \E n \in p[k].min..most :
                /\ \A t \in 0..(n - 1) : s[j + t] \in p[k].cls
                /\ MatchFrom(p, k + 1, s, j + n)

\* regex.search(value) for an anchored pattern
RegexSearch(p, s) == MatchFrom(p, 1, s, 1)

\* re.search of an unanchored class+ pattern: the 0-based start of the first
\* match, or -1 when there is none (m is None)
NoMatch == -1

SearchStart(cls, s) ==
    IF \E i \in 1..Len(s) : s[i] \in cls
    THEN (CHOOSE i \in 1..Len(s) : s[i] \in cls /\ \A j \in 1..(i - 1) : s[j] \notin cls) - 1
    ELSE NoMatch

\* re.sub('[cls]', '', s)
RECURSIVE RemoveChars(_, _)
RemoveChars(cls, s) ==
    IF s = <<>> THEN <<>>
    ELSE IF Head(s) \in cls THEN RemoveChars(cls, Tail(s))
         ELSE <<Head(s)>> \o RemoveChars(cls, Tail(s))

-----------------------------------------------------------------------------
(* Outcomes *)

Accepted == [status |-> "accepted", message |-> ""]

Rejected(msg) == [status |-> "rejected", message |-> msg]

Raised(exc) == [status |-> "error", message |-> exc]

-----------------------------------------------------------------------------
(* The patterns of the validators.  An instance holds a compiled pattern,   *)
(* named here by its source text.                                           *)

ZipPattern == "^\\d{4} ?[A-Z]{2}$"

ZipRegex == <<Item(DigitChars, 4, 4), Item({" "}, 0, 1), Item(UpperChars, 2, 2)>>

BSNPattern == "^\\d{9}$"

BSNRegex == <<Item(DigitChars, 9, 9)>>

BankPattern == "^[0-9]+$"

BankRegex == <<Item(DigitChars, 1, Unbounded)>>

NoLeadingZerosPattern == "[1-9]+"

MTPattern == "^[A-Z]{3}\\ \\d{4}$"

\* Variant: the space is left out of the pattern
MTRegexNoSpace == <<Item(UpperChars, 3, 3), Item(DigitChars, 4, 4)>>

MTRegex == <<Item(UpperChars, 3, 3), Item({" "}, 1, 1), Item(DigitChars, 4, 4)>>

\* re.compile(pattern) for an anchored pattern
Compiled(pattern) ==
    CASE pattern = ZipPattern -> ZipRegex
      [] pattern = BSNPattern -> BSNRegex
      [] pattern = BankPattern -> BankRegex
      [] pattern = MTPattern -> MTRegex

\* re.compile(pattern) for the unanchored class+ pattern
CompiledClass(pattern) == CASE pattern = NoLeadingZerosPattern -> NonZeroDigitChars

\* RegexValidator.__call__: raise ValidationError(self.message) unless
\* self.regex.search(value)
RegexValidatorCall(inst, value) ==
    IF RegexSearch(Compiled(inst.regex), value) THEN Accepted ELSE Rejected(inst.message)

-----------------------------------------------------------------------------
(* NLZipCodeFieldValidator *)

ZipErrorMessage == "Enter a valid zip code."

\* __init__: RegexValidator.__init__(regex=..., message=self.error_message)
ZipInit == [regex |-> ZipPattern, message |-> ZipErrorMessage,
            error_message |-> ZipErrorMessage]

ZipMinimum == 1000

\* if int(value[:4]) < 1000: raise ValidationError(self.error_message)
ZipRangeCheck(inst, value) ==
    LET n == PyInt(Prefix(value, 4))
    IN  IF n = ValueError THEN Raised("ValueError")
        ELSE IF n < ZipMinimum THEN Rejected(inst.error_message)
        ELSE Accepted

ZipValidate(inst, value) ==
    LET r == RegexValidatorCall(inst, value)
    IN  IF r # Accepted THEN r ELSE ZipRangeCheck(inst, value)

-----------------------------------------------------------------------------
(* NLBSNFieldValidator and NLSoFiNumberFieldValidator *)

BSNErrorMessage == "Enter a valid BSN."

SoFiErrorMessage == "Enter a valid SoFi number."

\* Variant: __init__ passes the BSN class's message instead of self.error_message
BSNFieldInitFixedMessage(error_message) ==
    [regex |-> BSNPattern, message |-> BSNErrorMessage, error_message |-> error_message]

\* NLBSNFieldValidator.__init__ run on an instance whose class attribute
\* error_message is the given one: message=self.error_message
BSNFieldInit(error_message) ==
    [regex |-> BSNPattern, message |-> error_message, error_message |-> error_message]

BSNInit == BSNFieldInit(BSNErrorMessage)

\* NLSoFiNumberFieldValidator overrides error_message and calls the BSN __init__
SoFiInit == BSNFieldInit(SoFiErrorMessage)

\* for i in range(9, 1, -1)
BSNWeights == 2..9

\* int(value[9 - i]) * i
BSNTerm(value, i) == PyIntChar(value[(9 - i) + 1]) * i

RECURSIVE BSNWeightedSum(_, _)
BSNWeightedSum(value, i) ==
    IF i \notin BSNWeights THEN 0 ELSE BSNTerm(value, i) + BSNWeightedSum(value, i - 1)

\* int() raises inside bsn_checksum_ok
BSNChecksumRaises(value) ==
    \/ \E i \in BSNWeights : PyIntChar(value[(9 - i) + 1]) = ValueError
    \/ PyIntChar(value[Len(value)]) = ValueError

\* checksum -= int(value[-1]); return checksum % 11 == 0
bsn_checksum_ok(value) ==
    (BSNWeightedSum(value, 9) - PyIntChar(value[Len(value)])) % 11 = 0

BSNChecks(inst, value) ==
    LET n == PyInt(value)
    IN  IF n = ValueError THEN Raised("ValueError")
        ELSE IF n = 0 THEN Rejected(inst.error_message)
        ELSE IF BSNChecksumRaises(value) THEN Raised("ValueError")
        ELSE IF ~bsn_checksum_ok(value) THEN Rejected(inst.error_message)
        ELSE Accepted

\* NLBSNFieldValidator.__call__, inherited unchanged by the SoFi validator
BSNValidate(inst, value) ==
    LET r == RegexValidatorCall(inst, value)
    IN  IF r # Accepted THEN r ELSE BSNChecks(inst, value)

-----------------------------------------------------------------------------
(* NLPhoneNumberFieldValidator *)

PhoneErrorMessage == "Enter a valid phone number."

\* Variant: the parentheses are left out of the character class
PhoneSeparatorsNoParens == {"-"} \cup SpaceChars

\* '[\-\s\(\)]'
PhoneSeparators == {"-", "(", ")"} \cup SpaceChars

\* '^\d+$'
numeric_re == <<Item(DigitChars, 1, Unbounded)>>

PhoneLocalLen == 10

PhoneIntlLen == 12

PhoneIntlPrefix == <<"+", "3", "1">>

PhoneValidate(value) ==
    LET phone_nr == RemoveChars(PhoneSeparators, value)
    IN  IF Len(phone_nr) = PhoneLocalLen /\ RegexSearch(numeric_re, phone_nr)
        THEN Accepted
        ELSE IF /\ Prefix(phone_nr, 3) = PhoneIntlPrefix
                /\ Len(phone_nr) = PhoneIntlLen
                /\ RegexSearch(numeric_re, DropFirst(phone_nr, 3))
        THEN Accepted
        ELSE Rejected(PhoneErrorMessage)

-----------------------------------------------------------------------------
(* NLBankAccountNumberFieldValidator *)

BankInvalid == "Enter a valid bank account number."

BankWrongLength == "Bank account numbers have 1 - 7, 9 or 10 digits."

BankInit == [regex |-> BankPattern, message |-> BankInvalid,
             no_leading_zeros_regex |-> NoLeadingZerosPattern]

BankMaxLength == 10

\* if len(value) > 10
BankTooLong(value) == Len(value) > BankMaxLength

\* Variant: the leading zeros are not stripped
BankStripNothing(value, start) == value

\* value = value[m.start():]
BankStrip(value, start) == DropFirst(value, start)

\* Variant: the short range is 1..8
BankBadLengthAllowsEight(value) ==
    Len(value) # 9 /\ Len(value) # 10 /\ ~(1 <= Len(value) /\ Len(value) <= 8)

\* len(value) != 9 and len(value) != 10 and not 1 <= len(value) <= 7
BankBadLength(value) ==
    Len(value) # 9 /\ Len(value) # 10 /\ ~(1 <= Len(value) /\ Len(value) <= 7)

\* Variant: range(0, 10)
ElevenWeightsFromZero == <<0, 1, 2, 3, 4, 5, 6, 7, 8, 9>>

\* range(1, 11)
ElevenWeights == <<1, 2, 3, 4, 5, 6, 7, 8, 9, 10>>

\* zip(value, range(1, 11)) stops at the shorter of the two
ZipLen(value) == Min(Len(value), Len(ElevenWeights))

RECURSIVE ElevenSumUpTo(_, _)
ElevenSumUpTo(value, n) ==
    IF n = 0 THEN 0
    ELSE PyIntChar(value[n]) * ElevenWeights[n] + ElevenSumUpTo(value, n - 1)

\* sum([int(a) * b for a, b in zip(value, range(1, 11))])
eleven_test_sum(value) == ElevenSumUpTo(value, ZipLen(value))

ElevenTestRaises(value) == \E i \in 1..ZipLen(value) : PyIntChar(value[i]) = ValueError

\* if len(value) == 9: value = "0" + value
BankPad(value) == IF Len(value) = 9 THEN <<"0">> \o value ELSE value

BankElevenTest(value) ==
    IF Len(value) = 9 \/ Len(value) = 10
    THEN LET padded == BankPad(value)
         IN  IF ElevenTestRaises(padded) THEN Raised("ValueError")
             ELSE IF eleven_test_sum(padded) % 11 # 0 THEN Rejected(BankInvalid)
             ELSE Accepted
    ELSE Accepted

\* Variant: the leading zeros are stripped before the length is checked
BankAfterRegexStripFirst(inst, value) ==
    LET start == SearchStart(CompiledClass(inst.no_leading_zeros_regex), value)
    IN  IF start = NoMatch THEN Rejected(BankInvalid)
        ELSE LET stripped == BankStrip(value, start)
             IN  IF BankTooLong(stripped) \/ BankBadLength(stripped)
                 THEN Rejected(BankWrongLength)
                 ELSE BankElevenTest(stripped)

BankAfterRegex(inst, value) ==
    IF BankTooLong(value) THEN Rejected(BankWrongLength)
    ELSE LET start == SearchStart(CompiledClass(inst.no_leading_zeros_regex), value)
         IN  IF start = NoMatch THEN Rejected(BankInvalid)
             ELSE LET stripped == BankStrip(value, start)
                  IN  IF BankBadLength(stripped) THEN Rejected(BankWrongLength)
                      ELSE BankElevenTest(stripped)

BankValidate(inst, value) ==
    LET r == RegexValidatorCall(inst, value)
    IN  IF r # Accepted THEN r ELSE BankAfterRegex(inst, value)

-----------------------------------------------------------------------------
(* MTPostalCodeField: a RegexField built with default arguments.  clean()   *)
(* strips the value, rejects an empty value of a required field, and runs   *)
(* the regex validator, whose 'invalid' error takes the field's message.    *)

MTInvalid == "Enter a valid postal code in format AAA 0000."

FieldRequired == "This field is required."

MTInit == [regex |-> MTPattern, required |-> TRUE, strip |-> TRUE,
           error_messages |-> [invalid |-> MTInvalid, required |-> FieldRequired]]

MTClean(inst, value) ==
    LET v == IF inst.strip THEN Strip(value) ELSE value
    IN  IF v = <<>>
        THEN IF inst.required THEN Rejected(inst.error_messages.required) ELSE Accepted
        ELSE IF RegexSearch(Compiled(inst.regex), v) THEN Accepted
        ELSE Rejected(inst.error_messages.invalid)

-----------------------------------------------------------------------------
(* Callers and the validator instances they share *)

Kinds == {"zip", "bsn", "sofi", "phone", "bank", "mt"}

\* The instances after construction
Construct ==
    [k \in Kinds |->
        CASE k = "zip" -> ZipInit
          [] k = "bsn" -> BSNInit
          [] k = "sofi" -> SoFiInit
          [] k = "phone" -> <<>>
          [] k = "bank" -> BankInit
          [] k = "mt" -> MTInit]

\* The outcome of validator.__call__(value) (of field.clean(value) for "mt")
\* on the instances s
Validate(s, kind, value) ==
    CASE kind = "zip" -> ZipValidate(s[kind], value)
      [] kind = "bsn" -> BSNValidate(s[kind], value)
      [] kind = "sofi" -> BSNValidate(s[kind], value)
      [] kind = "phone" -> PhoneValidate(value)
      [] kind = "bank" -> BankValidate(s[kind], value)
      [] kind = "mt" -> MTClean(s[kind], value)

\* Variant: a rejecting bank account call keeps its message in self.message
SelfAfterCallKeepsError(s, kind, out) ==
    IF kind = "bank" /\ out.status = "rejected"
    THEN [s EXCEPT ![kind].message = out.message]
    ELSE s

\* What a call leaves in the instances: no __call__ assigns to self
SelfAfterCall(s, kind, out) == s

NumCallers == 2

Callers == 1..NumCallers

Idle == [pc |-> "idle", kind |-> "", value |-> <<>>, outcome |-> Accepted]

Pending(kind, value) ==
    [pc |-> "called", kind |-> kind, value |-> value, outcome |-> Accepted]

\* One caller about to validate value, the others idle
OneCall(kind, value) == [c \in Callers |-> IF c = 1 THEN Pending(kind, value) ELSE Idle]

Done(c, kind) == frame[c].pc = "done" /\ frame[c].kind = kind

\* The call returns or raises: the caller holds the outcome
Finish(c, kind) ==
    LET out == Validate(self, kind, frame[c].value)
    IN  /\ frame' = [frame EXCEPT ![c].pc = "done", ![c].outcome = out]
        /\ self' = SelfAfterCall(self, kind, out)

ZipCall(c) ==
    /\ frame[c].pc = "called"
    /\ frame[c].kind = "zip"
    /\ Finish(c, "zip")

BSNCall(c) ==
    /\ frame[c].pc = "called"
    /\ frame[c].kind = "bsn"
    /\ Finish(c, "bsn")

SoFiCall(c) ==
    /\ frame[c].pc = "called"
    /\ frame[c].kind = "sofi"
    /\ Finish(c, "sofi")

PhoneCall(c) ==
    /\ frame[c].pc = "called"
    /\ frame[c].kind = "phone"
    /\ Finish(c, "phone")

BankCall(c) ==
    /\ frame[c].pc = "called"
    /\ frame[c].kind = "bank"
    /\ Finish(c, "bank")

MTCall(c) ==
    /\ frame[c].pc = "called"
    /\ frame[c].kind = "mt"
    /\ Finish(c, "mt")

-----------------------------------------------------------------------------
(* Zip codes: every string over ZipAlphabet of at most ZipMaxLen characters *)

ZipMaxLen == 8

ZipAlphabet == {"0", "1", " ", "A", "\n"}

InitZip ==
    /\ self = Construct
    /\ \E k \in 0..ZipMaxLen : \E v \in [1..k -> ZipAlphabet] : frame = OneCall("zip", v)

NextZip == \E c \in Callers : ZipCall(c)

SpecZip == InitZip /\ [][NextZip]_vars

-----------------------------------------------------------------------------
(* BSN and SoFi numbers: every string over BSNAlphabet of at most BSNMaxLen  *)
(* characters, given to either validator                                    *)

BSNMaxLen == 10

BSNAlphabet == {"0", "1", "\n"}

InitBSN ==
    /\ self = Construct
    /\ \E k \in 0..BSNMaxLen : \E v \in [1..k -> BSNAlphabet] :
          \E kind \in {"bsn", "sofi"} : frame = OneCall(kind, v)

NextBSN == \E c \in Callers : BSNCall(c) \/ SoFiCall(c)

SpecBSN == InitBSN /\ [][NextBSN]_vars

-----------------------------------------------------------------------------
(* Phone numbers: every concatenation of at most PhoneMaxTokens tokens      *)

PhoneMaxTokens == 4

PhoneTokens ==
    {<<"+", "3", "1">>, <<"+">>, <<"0">>, <<"0", "6">>,
     <<"1", "2", "3", "4", "5", "6", "7", "8">>,
     <<"-">>, <<" ">>, <<"(">>, <<")">>, <<"\n">>, <<"x">>}

RECURSIVE Flatten(_)
Flatten(ts) == IF ts = <<>> THEN <<>> ELSE Head(ts) \o Flatten(Tail(ts))

InitPhone ==
    /\ self = Construct
    /\ \E k \in 0..PhoneMaxTokens : \E ts \in [1..k -> PhoneTokens] :
          frame = OneCall("phone", Flatten(ts))

NextPhone == \E c \in Callers : PhoneCall(c)

SpecPhone == InitPhone /\ [][NextPhone]_vars

-----------------------------------------------------------------------------
(* Bank account numbers: every string over BankAlphabet of at most          *)
(* BankMaxLen characters                                                    *)

BankMaxLen == 11

BankAlphabet == {"0", "1", "\n"}

InitBank ==
    /\ self = Construct
    /\ \E k \in 0..BankMaxLen : \E v \in [1..k -> BankAlphabet] : frame = OneCall("bank", v)

NextBank == \E c \in Callers : BankCall(c)

SpecBank == InitBank /\ [][NextBank]_vars

(* Bank account numbers: every string of at most BankMaxLength digits, the  *)
(* digits being 0..MaxDigit                                                 *)

MaxDigit == 2

DigitsUpTo(n) == {Digits10[i] : i \in 1..Min(n + 1, 10)}

InitBankDigits ==
    /\ self = Construct
    /\ \E k \in 0..BankMaxLength : \E v \in [1..k -> DigitsUpTo(MaxDigit)] :
          frame = OneCall("bank", v)

SpecBankDigits == InitBankDigits /\ [][NextBank]_vars

-----------------------------------------------------------------------------
(* Maltese postal codes: every string over MTAlphabet of at most MTMaxLen   *)
(* characters                                                               *)

MTMaxLen == 9

MTAlphabet == {"A", "1", " ", "\n"}

InitMT ==
    /\ self = Construct
    /\ \E k \in 0..MTMaxLen : \E v \in [1..k -> MTAlphabet] : frame = OneCall("mt", v)

NextMT == \E c \in Callers : MTCall(c)

SpecMT == InitMT /\ [][NextMT]_vars

-----------------------------------------------------------------------------
(* Any number of calls by the callers, interleaved, on the shared instances *)

CallValues(kind) ==
    CASE kind = "zip" ->
           {<<"1", "0", "1", "1", " ", "A", "B">>, <<"0", "9", "9", "9", " ", "A", "B">>}
      [] kind \in {"bsn", "sofi"} ->
           {<<"1", "1", "1", "2", "2", "2", "3", "3", "3">>,
            <<"1", "1", "1", "2", "2", "2", "3", "3", "4">>,
            <<"1", "2", "3">>}
      [] kind = "phone" ->
           {<<"0", "6", "1", "2", "3", "4", "5", "6", "7", "8">>,
            <<"0", "6", "1", "2", "3", "4", "5", "6", "7">>}
      [] kind = "bank" ->
           {<<"1", "2", "3", "4", "5", "6", "7">>,
            <<"1", "2", "3", "4", "5", "6", "7", "8">>,
            <<"1", "2", "3", "4", "5", "6", "7", "8", "9">>,
            <<"1", "2", "x">>}
      [] kind = "mt" ->
           {<<"A", "B", "C", " ", "1", "2", "3", "4">>,
            <<"A", "B", "1", " ", "1", "2", "3", "4">>, <<>>}

Invoke(c) ==
    /\ frame[c].pc = "idle"
    /\ \E kind \in Kinds : \E v \in CallValues(kind) :
          frame' = [frame EXCEPT ![c] = Pending(kind, v)]
    /\ UNCHANGED self

Return(c) ==
    /\ frame[c].pc = "done"
    /\ frame' = [frame EXCEPT ![c] = Idle]
    /\ UNCHANGED self

Init ==
    /\ self = Construct
    /\ frame = [c \in Callers |-> Idle]

Next ==
    \E c \in Callers :
        \/ Invoke(c)
        \/ ZipCall(c)
        \/ BSNCall(c)
        \/ SoFiCall(c)
        \/ PhoneCall(c)
        \/ BankCall(c)
        \/ MTCall(c)
        \/ Return(c)

Spec == Init /\ [][Next]_vars

-----------------------------------------------------------------------------
(* Reference definitions the properties are stated with *)

AllDigits(s) == \A i \in 1..Len(s) : s[i] \in DigitChars

AllBlank(s) == \A i \in 1..Len(s) : s[i] \in SpaceChars

HasNonZero(s) == \E i \in 1..Len(s) : s[i] # "0"

ValueOf(c) == frame[c].value

OutcomeOf(c) == frame[c].outcome

\* Digits only, optionally followed by one newline that ends the string
DigitsThenOptionalNewline(s) ==
    \E n \in 1..Len(s) :
        /\ \A i \in 1..n : s[i] \in DigitChars
        /\ n = Len(s) \/ (n = Len(s) - 1 /\ s[Len(s)] = "\n")

RECURSIVE WithoutLeadingZeros(_)
WithoutLeadingZeros(s) ==
    IF s # <<>> /\ Head(s) = "0" THEN WithoutLeadingZeros(Tail(s)) ELSE s

\* The sum over 0-based positions lo..hi of digit[i] * w[i]
RECURSIVE WeightedSum(_, _, _, _)
WeightedSum(s, w(_), lo, hi) ==
    IF lo > hi THEN 0 ELSE DigitVal(s[lo + 1]) * w(lo) + WeightedSum(s, w, lo + 1, hi)

Ascending(i) == i + 1

Descending(i) == 10 - i

BSNWeight(i) == 9 - i

AscendingSum(s) == WeightedSum(s, Ascending, 0, 9)

DescendingSum(s) == WeightedSum(s, Descending, 0, 9)

\* The acceptance rule for bank account numbers given as digit strings
BankRule(v) ==
    LET s == WithoutLeadingZeros(v)
        padded == IF Len(s) = 9 THEN <<"0">> \o s ELSE s
    IN  /\ HasNonZero(v)
        /\ \/ Len(s) \in 1..7
           \/ Len(s) \in {9, 10} /\ AscendingSum(padded) % 11 = 0

\* Exactly 9 digits, not all zero, with the BSN checksum divisible by 11
BSNRule(v) ==
    /\ Len(v) = 9
    /\ AllDigits(v)
    /\ HasNonZero(v)
    /\ (WeightedSum(v, BSNWeight, 0, 7) - DigitVal(v[9])) % 11 = 0

\* Four digits, an optional single space, two uppercase letters; the four
\* digits read as a number at least 1000
ZipRule(v) ==
    /\ Len(v) \in {6, 7}
    /\ \A i \in 1..4 : v[i] \in DigitChars
    /\ Len(v) = 7 => v[5] = " "
    /\ \A i \in (Len(v) - 1)..Len(v) : v[i] \in UpperChars
    /\ 1000 * DigitVal(v[1]) + 100 * DigitVal(v[2]) + 10 * DigitVal(v[3]) + DigitVal(v[4])
          >= 1000

\* '-', '(', ')' and the whitespace characters
SeparatorChars == {"-", "(", ")", " ", "\t", "\n", "\r", "\f"}

IsSeparator(ch) == ch \in SeparatorChars

NotSeparator(ch) == ~IsSeparator(ch)

WithoutSeparators(v) == SelectSeq(v, NotSeparator)

\* 10 digits, or +31 and 9 digits, once the separators are removed
PhoneRule(v) ==
    LET s == WithoutSeparators(v)
    IN  \/ Len(s) = 10 /\ AllDigits(s)
        \/ /\ Len(s) = 12
           /\ s[1] = "+" /\ s[2] = "3" /\ s[3] = "1"
           /\ \A i \in 4..12 : s[i] \in DigitChars

InsertAt(v, p, ch) == SubSeq(v, 1, p) \o <<ch>> \o SubSeq(v, p + 1, Len(v))

RemoveAt(v, p) == SubSeq(v, 1, p - 1) \o SubSeq(v, p + 1, Len(v))

\* Three uppercase letters, one space, four digits
MTRule(v) ==
    /\ Len(v) = 8
    /\ \A i \in 1..3 : v[i] \in UpperChars
    /\ v[4] = " "
    /\ \A i \in 5..8 : v[i] \in DigitChars

\* A string of the MTRule form between leading and trailing whitespace
MTRulePadded(v) ==
    \E i \in 1..Len(v) : \E j \in i..Len(v) :
        /\ \A k \in 1..(i - 1) : v[k] \in SpaceChars
        /\ \A k \in (j + 1)..Len(v) : v[k] \in SpaceChars
        /\ MTRule(SubSeq(v, i, j))

-----------------------------------------------------------------------------
(* Properties *)

\* C1 as stated: every input of more than 10 characters, whatever its
\* content, is rejected by the bank account validator with the length message.
C1_AnyLongInputGetsLengthMessage ==
    \A c \in Callers :
        Done(c, "bank") /\ Len(ValueOf(c)) > 10
            => OutcomeOf(c) = Rejected(BankWrongLength)

\* C1 amended: an input of more than 10 characters is rejected with the length
\* message when it passes the digits-only regex (digits, optionally one final
\* newline), and with the 'invalid' message otherwise; the length check comes
\* after the regex check and before the leading zeros are stripped.
C1_LongInputAfterRegex ==
    \A c \in Callers :
        Done(c, "bank") /\ Len(ValueOf(c)) > 10
            => OutcomeOf(c) = IF DigitsThenOptionalNewline(ValueOf(c))
                              THEN Rejected(BankWrongLength)
                              ELSE Rejected(BankInvalid)

\* An 11-digit number whose leading zeros would strip to a good length is
\* rejected with the length message
C1_Witness ==
    \E c \in Callers :
        /\ Done(c, "bank")
        /\ Len(ValueOf(c)) = 11
        /\ AllDigits(ValueOf(c))
        /\ Len(WithoutLeadingZeros(ValueOf(c))) \in 1..7
        /\ OutcomeOf(c) = Rejected(BankWrongLength)

\* C2: a digit string of at most 10 characters is accepted by the bank account
\* validator iff it has a non-zero digit and, without its leading zeros, has
\* 1..7 digits, or 9 or 10 digits and an ascending-weight sum (9 digits padded
\* with one "0") divisible by 11; 8 digits are always rejected.
C2_BankAcceptance ==
    \A c \in Callers :
        Done(c, "bank") /\ AllDigits(ValueOf(c)) /\ Len(ValueOf(c)) <= 10
            => /\ OutcomeOf(c).status \in {"accepted", "rejected"}
               /\ OutcomeOf(c).status = "accepted" <=> BankRule(ValueOf(c))
               /\ Len(WithoutLeadingZeros(ValueOf(c))) = 8
                     => OutcomeOf(c).status = "rejected"

\* A number of 9 digits after stripping that passes the eleven test
C2_Witness ==
    \E c \in Callers :
        /\ Done(c, "bank")
        /\ AllDigits(ValueOf(c))
        /\ Len(ValueOf(c)) = 10
        /\ Len(WithoutLeadingZeros(ValueOf(c))) = 9
        /\ OutcomeOf(c) = Accepted

\* C3 as stated: the BSN validator accepts exactly the strings of 9 digits, not
\* all zero, whose checksum is divisible by 11, and rejects every other string
\* with 'Enter a valid BSN.'
C3_BSNAcceptsOrRejects ==
    \A c \in Callers :
        Done(c, "bsn")
            => OutcomeOf(c) = IF BSNRule(ValueOf(c))
                              THEN Accepted
                              ELSE Rejected(BSNErrorMessage)

\* C4: the SoFi validator accepts exactly what the BSN validator accepts,
\* rejects exactly what it rejects, and every rejection carries the SoFi
\* message, never the BSN one.
C4_SoFiAsBSN ==
    \A c \in Callers :
        Done(c, "sofi")
            => LET b == BSNValidate(BSNInit, ValueOf(c))
               IN  /\ OutcomeOf(c).status = b.status
                   /\ OutcomeOf(c).status = "rejected"
                         => OutcomeOf(c).message = SoFiErrorMessage

\* The SoFi validator has rejected a string at the regex
C4_Witness ==
    \E c \in Callers :
        /\ Done(c, "sofi")
        /\ Len(ValueOf(c)) = 8
        /\ AllDigits(ValueOf(c))
        /\ OutcomeOf(c) = Rejected(SoFiErrorMessage)

\* C5 as stated: the zip code validator accepts exactly the strings of four
\* digits, an optional space and two uppercase letters whose digits are at
\* least 1000, and rejects every other string with 'Enter a valid zip code.'
C5_ZipAcceptsOrRejects ==
    \A c \in Callers :
        Done(c, "zip")
            => OutcomeOf(c) = IF ZipRule(ValueOf(c))
                              THEN Accepted
                              ELSE Rejected(ZipErrorMessage)

\* C6: the phone validator accepts iff the value without its separators is 10
\* digits or +31 and 9 digits, rejects with 'Enter a valid phone number.'
\* otherwise, and inserting or removing one separator anywhere leaves the
\* outcome as it is.
C6_PhoneAcceptance ==
    \A c \in Callers :
        Done(c, "phone")
            => /\ OutcomeOf(c) = IF PhoneRule(ValueOf(c))
                                 THEN Accepted
                                 ELSE Rejected(PhoneErrorMessage)
               /\ \A p \in 0..Len(ValueOf(c)) : \A ch \in SeparatorChars :
                     PhoneValidate(InsertAt(ValueOf(c), p, ch)) = OutcomeOf(c)
               /\ \A p \in 1..Len(ValueOf(c)) :
                     IsSeparator(ValueOf(c)[p])
                        => PhoneValidate(RemoveAt(ValueOf(c), p)) = OutcomeOf(c)

\* An international number written with parentheses has been accepted
C6_Witness ==
    \E c \in Callers :
        /\ Done(c, "phone")
        /\ ValueOf(c) # <<>>
        /\ ValueOf(c)[1] = "+"
        /\ \E p \in 1..Len(ValueOf(c)) : ValueOf(c)[p] = "("
        /\ OutcomeOf(c) = Accepted

\* C7: a digit string of 1 to 9 characters and the same string with one "0"
\* in front get the same outcome from the bank account validator.
C7_LeadingZeroSameOutcome ==
    \A c \in Callers :
        Done(c, "bank") /\ AllDigits(ValueOf(c)) /\ Len(ValueOf(c)) \in 1..9
            => OutcomeOf(c) = BankValidate(self["bank"], <<"0">> \o ValueOf(c))

\* A 9-digit number without leading zero has passed the eleven test
C7_Witness ==
    \E c \in Callers :
        /\ Done(c, "bank")
        /\ AllDigits(ValueOf(c))
        /\ Len(ValueOf(c)) = 9
        /\ ValueOf(c)[1] # "0"
        /\ OutcomeOf(c) = Accepted
        /\ BankValidate(self["bank"], <<"0">> \o ValueOf(c)) = Accepted

C9_NoMemory ==
    /\ self = Construct
    /\ \A c \in Callers :
          frame[c].pc = "done"
             => OutcomeOf(c) = Validate(Construct, frame[c].kind, ValueOf(c))

\* Two callers have validated the same accepted value on the same instance
C9_Witness ==
    \E c1 \in Callers : \E c2 \in Callers \ {c1} :
        /\ Done(c1, "bank")
        /\ Done(c2, "bank")
        /\ ValueOf(c1) = ValueOf(c2)
        /\ OutcomeOf(c1) = Accepted
        /\ OutcomeOf(c2) = Accepted

\* C10: for a 10-digit string the ascending-weight sum the validator computes
\* is divisible by 11 iff the descending-weight sum is, so the validator
\* accepts a 10-digit number that reaches the eleven test iff the
\* descending-weight test passes.
C10_WeightsEquivalent ==
    \A c \in Callers :
        Done(c, "bank") /\ AllDigits(ValueOf(c)) /\ Len(ValueOf(c)) = 10
            => /\ eleven_test_sum(ValueOf(c)) % 11 = 0
                     <=> DescendingSum(ValueOf(c)) % 11 = 0
               /\ Len(WithoutLeadingZeros(ValueOf(c))) >= 9
                     => (OutcomeOf(c) = Accepted
                            <=> DescendingSum(ValueOf(c)) % 11 = 0)

\* A 10-digit number without leading zero has passed the eleven test
C10_Witness ==
    \E c \in Callers :
        /\ Done(c, "bank")
        /\ AllDigits(ValueOf(c))
        /\ Len(ValueOf(c)) = 10
        /\ ValueOf(c)[1] # "0"
        /\ OutcomeOf(c) = Accepted

=============================================================================
